---- MODULE Spec2Model ----
(***************************************************************************)
(* A model of assesspy: the compliance predicates and the metrics of       *)
(* formulas.py, the validator of utils.py and the sales-chasing detector   *)
(* of sales_chasing.py.                                                    *)
(*                                                                         *)
(* Real numbers are exact rationals <<num, den>> with den > 0, kept in     *)
(* lowest terms.  The arguments of the compliance predicates are integers  *)
(* in thousandths (5000 is 5.0, 980 is 0.98).                              *)
(***************************************************************************)
EXTENDS Integers, Sequences, FiniteSets

VARIABLES
    pc,     \* position of the call in progress: "idle", a step name, "done"
    fn,     \* the function that was called
    inp,    \* its arguments
    loc,    \* its local variables
    ret     \* what it returned or raised

vars == <<pc, fn, inp, loc, ret>>

\* ------------------------------------------------------------------ bounds

\* Compliance predicates are called with every x in -MaxMilli..MaxMilli.
MaxMilli == 15100

\* ------------------------------------------------------- exact arithmetic

Abs(x) == IF x < 0 THEN 0 - x ELSE x

RECURSIVE GCD(_, _)
GCD(a, b) == IF b = 0 THEN a ELSE GCD(b, a % b)

\* The rational n/d (d # 0) in lowest terms with a positive denominator.
Rat(n, d) ==
    LET g == GCD(Abs(n), Abs(d))
        s == IF d < 0 THEN 0 - 1 ELSE 1
    IN  <<(s * n) \div g, (s * d) \div g>>

RAdd(p, q) == Rat(p[1] * q[2] + q[1] * p[2], p[2] * q[2])
RSub(p, q) == Rat(p[1] * q[2] - q[1] * p[2], p[2] * q[2])
RMul(p, q) == Rat(p[1] * q[1], p[2] * q[2])
RDiv(p, q) == Rat(p[1] * q[2], p[2] * q[1])
RLess(p, q) == p[1] * q[2] < q[1] * p[2]
RLeq(p, q) == p[1] * q[2] <= q[1] * p[2]
RInt(n) == <<n, 1>>

RECURSIVE RSum(_)
RSum(v) == IF v = <<>> THEN RInt(0) ELSE RAdd(v[1], RSum(Tail(v)))

RECURSIVE ISum(_)
ISum(v) == IF v = <<>> THEN 0 ELSE v[1] + ISum(Tail(v))

\* ------------------------------------------------- compliance predicates

cod_met_strict(x) == 5000 < x /\ x < 15000

cod_met(x) == 5000 <= x /\ x <= 15000

prd_met(x) == 980 <= x /\ x <= 1030

prb_met(x) == (0 - 50) <= x /\ x <= 50

ki_mki_met(x) == 950 <= x /\ x <= 1050

Init ==
    /\ pc = "idle"
    /\ fn = "none"
    /\ inp = <<>>
    /\ loc = <<>>
    /\ ret = <<>>

MilliInputs == (0 - MaxMilli)..MaxMilli

CallCodMet ==
    /\ pc = "idle"
    /\ \E x \in MilliInputs :
        /\ pc' = "done" /\ fn' = "cod_met" /\ inp' = x /\ loc' = <<>>
        /\ ret' = cod_met(x)

CallPrdMet ==
    /\ pc = "idle"
    /\ \E x \in MilliInputs :
        /\ pc' = "done" /\ fn' = "prd_met" /\ inp' = x /\ loc' = <<>>
        /\ ret' = prd_met(x)

CallPrbMet ==
    /\ pc = "idle"
    /\ \E x \in MilliInputs :
        /\ pc' = "done" /\ fn' = "prb_met" /\ inp' = x /\ loc' = <<>>
        /\ ret' = prb_met(x)

CallKiMkiMet ==
    /\ pc = "idle"
    /\ \E x \in MilliInputs :
        /\ pc' = "done" /\ fn' = "ki_mki_met" /\ inp' = x /\ loc' = <<>>
        /\ ret' = ki_mki_met(x)

NextMet == CallCodMet \/ CallPrdMet \/ CallPrbMet \/ CallKiMkiMet

SpecMet == Init /\ [][NextMet]_vars

\* C1: each compliance predicate is true exactly on its closed interval,
\* endpoints included: COD on [5, 15], PRD on [0.98, 1.03], PRB on
\* [-0.05, 0.05], KI/MKI on [0.95, 1.05]; cod_met(5) and cod_met(15) are
\* true, cod_met(4.999) and cod_met(15.001) are false.
C1_ClosedIntervals ==
    /\ fn = "cod_met" => (ret <=> inp \in 5000..15000)
    /\ fn = "prd_met" => (ret <=> inp \in 980..1030)
    /\ fn = "prb_met" => (ret <=> inp \in (0 - 50)..50)
    /\ fn = "ki_mki_met" => (ret <=> inp \in 950..1050)
    /\ (fn = "cod_met" /\ inp \in {5000, 15000}) => ret
    /\ (fn = "cod_met" /\ inp \in {4999, 15001}) => ~ret

C1_Witness == fn = "cod_met" /\ inp = 15000 /\ ret = TRUE

\* ---------------------------------------------------------------- utils.py

\* Vectors handed to check_inputs have 1..MaxCheckLen elements; their finite
\* numbers are 0..MaxElem.
MaxCheckLen == 2
MaxElem == 1

\* An element is <<kind, value>>: a finite number, a null (NaN), an
\* infinity (value: its sign) or a string (a non-numeric value).
Elems ==
    {<<"num", v>> : v \in 0..MaxElem} \cup {<<"nan", 0>>, <<"inf", 1>>, <<"str", 0>>}

SeqsUpTo(S, lo, hi) == UNION {[1..n -> S] : n \in lo..hi}

\* A vector as the caller passes it: a Python list or a Python tuple.
UserVectors ==
    {[repr |-> r, elems |-> e] : r \in {"list", "tuple"}, e \in SeqsUpTo(Elems, 1, MaxCheckLen)}

\* np.array(x): an ndarray with the elements of x.
np_array(x) == [repr |-> "ndarray", elems |-> x.elems]

\* pd.Series(x): one element for a scalar; dtype object as soon as one
\* element is a string, a float dtype otherwise.
Series(x) ==
    [dtype |-> IF \E i \in DOMAIN x.elems : x.elems[i][1] = "str"
               THEN "object" ELSE "float64",
     values |-> x.elems]

\* The unnesting loop: args becomes the last argument that is a tuple, whose
\* elements are then the arguments.
Unnest(args) ==
    LET T == {i \in DOMAIN args : args[i].repr = "tuple"}
    IN  IF T = {} THEN args
        ELSE LET k == CHOOSE i \in T : \A j \in T : j <= i
             IN  [i \in DOMAIN args[k].elems |->
                    [repr |-> "scalar", elems |-> <<args[k].elems[i]>>]]

\* np.isfinite has no loop for the object dtype: it raises TypeError.
IsFiniteRaises(check) == check.dtype = "object"

\* The messages one vector adds.
VectorMessages(check) ==
    LET v == check.values
    IN  (IF check.dtype = "object"
         THEN {"All input values must be numeric."} ELSE {})
        \cup (IF \E i \in DOMAIN v : v[i][1] = "nan"
              THEN {"All input values cannot be null."} ELSE {})
        \cup (IF Len(v) <= 1
              THEN {"All input values must have length greater than 1."} ELSE {})
        \cup (IF ~(\A i \in DOMAIN v : v[i][1] \in {"num", "nan"})
              THEN {"All input values cannot be infinite."} ELSE {})
        \cup (IF \E i \in DOMAIN v :
                    \/ (v[i][1] = "num" /\ v[i][2] <= 0)
                    \/ (v[i][1] = "inf" /\ v[i][2] < 0)
              THEN {"All input values must be greater than 0."} ELSE {})

check_inputs(args0) ==
    LET args == Unnest(args0)
        msgs == UNION {VectorMessages(Series(args[i])) : i \in DOMAIN args}
        lengths == {Len(Series(args[i]).values) : i \in DOMAIN args}
        out_msg == msgs \cup (IF Cardinality(lengths) > 1
                              THEN {"All input values must have the same length."}
                              ELSE {})
    IN  IF \E i \in DOMAIN args : IsFiniteRaises(Series(args[i]))
        THEN [kind |-> "TypeError", msgs |-> {}]
        ELSE IF out_msg # {}
        THEN [kind |-> "Exception", msgs |-> out_msg]
        ELSE [kind |-> "ok", msgs |-> {}]

\* cod validates its argument as passed.
CheckInputsCod ==
    /\ pc = "idle"
    /\ \E ratio \in UserVectors :
        /\ pc' = "done" /\ fn' = "check_inputs"
        /\ inp' = [caller |-> "cod", vectors |-> <<ratio>>]
        /\ loc' = <<ratio>>
        /\ ret' = check_inputs(<<ratio>>)

\* prd, prb and ki_mki convert both arguments with np.array first.
CheckInputsPrd ==
    /\ pc = "idle"
    /\ \E assessed \in UserVectors, sale_price \in UserVectors :
        /\ pc' = "done" /\ fn' = "check_inputs"
        /\ inp' = [caller |-> "prd", vectors |-> <<assessed, sale_price>>]
        /\ loc' = <<np_array(assessed), np_array(sale_price)>>
        /\ ret' = check_inputs(<<np_array(assessed), np_array(sale_price)>>)

\* _detect_chasing_cdf and _detect_chasing_dist validate both as passed.
CheckInputsChasing ==
    /\ pc = "idle"
    /\ \E estimate \in UserVectors, sale_price \in UserVectors :
        /\ pc' = "done" /\ fn' = "check_inputs"
        /\ inp' = [caller |-> "detect_chasing", vectors |-> <<estimate, sale_price>>]
        /\ loc' = <<estimate, sale_price>>
        /\ ret' = check_inputs(<<estimate, sale_price>>)

NextCheck == CheckInputsCod \/ CheckInputsPrd \/ CheckInputsChasing

SpecCheck == Init /\ [][NextCheck]_vars

\* The conditions of the validator contract, read on the vectors the caller
\* passed.
NonNumeric(v) == \E i \in DOMAIN v.elems : v.elems[i][1] = "str"
HasNull(v) == \E i \in DOMAIN v.elems : v.elems[i][1] = "nan"
TooShort(v) == Len(v.elems) <= 1
HasInfinite(v) == \E i \in DOMAIN v.elems : v.elems[i][1] = "inf"
HasNonPositive(v) ==
    \E i \in DOMAIN v.elems :
        \/ (v.elems[i][1] = "num" /\ v.elems[i][2] <= 0)
        \/ (v.elems[i][1] = "inf" /\ v.elems[i][2] < 0)
UnequalLengths(vs) == \E i, j \in DOMAIN vs : Len(vs[i].elems) # Len(vs[j].elems)

ViolatedConditions(vs) ==
    (IF \E i \in DOMAIN vs : NonNumeric(vs[i])
     THEN {"All input values must be numeric."} ELSE {})
    \cup (IF \E i \in DOMAIN vs : HasNull(vs[i])
          THEN {"All input values cannot be null."} ELSE {})
    \cup (IF \E i \in DOMAIN vs : TooShort(vs[i])
          THEN {"All input values must have length greater than 1."} ELSE {})
    \cup (IF \E i \in DOMAIN vs : HasInfinite(vs[i])
          THEN {"All input values cannot be infinite."} ELSE {})
    \cup (IF \E i \in DOMAIN vs : HasNonPositive(vs[i])
          THEN {"All input values must be greater than 0."} ELSE {})
    \cup (IF UnequalLengths(vs)
          THEN {"All input values must have the same length."} ELSE {})

\* C2: check_inputs, as the metrics call it, succeeds silently exactly when
\* every vector is numeric, has no null, has length > 1, has no infinite
\* value, has only strictly positive values, and all vectors have the same
\* length; it raises an error whenever one of these is violated.
C2_SucceedsIffValid ==
    fn = "check_inputs" =>
        (ret.kind = "ok" <=> ViolatedConditions(inp.vectors) = {})

\* C3: when check_inputs raises, it raises the single aggregated error whose
\* message describes every violated condition and no other.
C3_MessageIsAllViolations ==
    (fn = "check_inputs" /\ ret.kind # "ok") =>
        (ret.kind = "Exception" /\ ret.msgs = ViolatedConditions(inp.vectors))

\* ------------------------------------------------------------- formulas.py

\* The metrics are called with integer vectors of 1..MaxLen values in
\* 1..MaxVal; a scaling claim multiplies them by 1..MaxScale.
MaxLen == 3
MaxVal == 3
MaxScale == 2

IntVectors == SeqsUpTo(1..MaxVal, 1, MaxLen)

\* A Python list of finite numbers, as check_inputs sees it.
AsList(v) == [repr |-> "list", elems |-> [i \in DOMAIN v |-> <<"num", v[i]>>]]

Scale(c, v) == [i \in DOMAIN v |-> c * v[i]]

Raised(e) == [type |-> "raise", kind |-> e.kind, msgs |-> e.msgs]

\* ratio = assessed / sale_price, element by element.
Ratio(assessed, sale_price) ==
    [i \in DOMAIN assessed |-> Rat(assessed[i], sale_price[i])]

\* The k-th smallest element of a vector of rationals.
KthSmallest(v, k) ==
    CHOOSE x \in {v[i] : i \in DOMAIN v} :
        /\ Cardinality({i \in DOMAIN v : RLess(v[i], x)}) < k
        /\ Cardinality({i \in DOMAIN v : RLeq(v[i], x)}) >= k

\* np.median: the middle element, or the mean of the two middle ones.
Median(v) ==
    LET n == Len(v)
    IN  IF n % 2 = 1 THEN KthSmallest(v, (n + 1) \div 2)
        ELSE RDiv(RAdd(KthSmallest(v, n \div 2), KthSmallest(v, n \div 2 + 1)),
                  RInt(2))

RAbs(q) == <<Abs(q[1]), q[2]>>

cod_value(ratio) ==
    LET r == [i \in DOMAIN ratio |-> RInt(ratio[i])]
        n == Len(r)
        median_ratio == Median(r)
        dev == [i \in DOMAIN r |-> RAbs(RSub(r[i], median_ratio))]
    IN  RMul(RDiv(RInt(100), median_ratio), RDiv(RSum(dev), RInt(n)))

\* cod returns the scalar it computed, a numpy.float64.
cod(ratio) ==
    LET chk == check_inputs(<<AsList(ratio)>>)
    IN  IF chk.kind # "ok" THEN Raised(chk)
        ELSE [type |-> "float", val |-> cod_value(ratio)]

\* A plausible slip: the weighted mean is not divided by the sum of weights.
prd_value_unnormalised(assessed, sale_price) ==
    LET ratio == Ratio(assessed, sale_price)
        n == Len(ratio)
        weighted == [i \in DOMAIN ratio |-> RMul(ratio[i], RInt(sale_price[i]))]
    IN  RDiv(RDiv(RSum(ratio), RInt(n)), RDiv(RSum(weighted), RInt(n)))

\* ratio.mean() / np.average(a=ratio, weights=sale_price)
prd_value(assessed, sale_price) ==
    LET ratio == Ratio(assessed, sale_price)
        n == Len(ratio)
        weighted == [i \in DOMAIN ratio |-> RMul(ratio[i], RInt(sale_price[i]))]
    IN  RDiv(RDiv(RSum(ratio), RInt(n)),
             RDiv(RSum(weighted), RInt(ISum(sale_price))))

prd(assessed, sale_price) ==
    LET chk == check_inputs(<<np_array(AsList(assessed)), np_array(AsList(sale_price))>>)
    IN  IF chk.kind # "ok" THEN Raised(chk)
        ELSE [type |-> "float", val |-> prd_value(assessed, sale_price)]

\* Powers of two and their exact base-2 logarithm.
RECURSIVE IsPow2(_)
IsPow2(n) == n = 1 \/ (n > 1 /\ n % 2 = 0 /\ IsPow2(n \div 2))

RECURSIVE ILog2(_)
ILog2(n) == IF n <= 1 THEN 0 ELSE 1 + ILog2(n \div 2)

RIsPow2(q) == (q[2] = 1 /\ IsPow2(q[1])) \/ (q[1] = 1 /\ IsPow2(q[2]))

\* np.log(x) / np.log(2), exact where x is a power of two.
Log2(q) == IF q[2] = 1 THEN ILog2(q[1]) ELSE 0 - ILog2(q[2])

\* The argument of the logarithm: (assessed / median_ratio + sale_price) / 2.
RhsArg(assessed, sale_price) ==
    LET median_ratio == Median(Ratio(assessed, sale_price))
    IN  [i \in DOMAIN assessed |->
            RDiv(RAdd(RDiv(RInt(assessed[i]), median_ratio), RInt(sale_price[i])),
                 RInt(2))]

\* The inputs on which every logarithm of prb is an integer.
ExactLog(assessed, sale_price) ==
    \A i \in DOMAIN assessed : RIsPow2(RhsArg(assessed, sale_price)[i])

\* sm.OLS(lhs, rhs).fit().params: one regressor, no constant column, solved
\* with the pseudo-inverse (0 when rhs is the zero vector).
OLS(lhs, rhs) ==
    LET xy == RSum([i \in DOMAIN lhs |-> RMul(lhs[i], RInt(rhs[i]))])
        xx == ISum([i \in DOMAIN rhs |-> rhs[i] * rhs[i]])
    IN  IF xx = 0 THEN RInt(0) ELSE RDiv(xy, RInt(xx))

prb_value(assessed, sale_price) ==
    LET ratio == Ratio(assessed, sale_price)
        median_ratio == Median(ratio)
        lhs == [i \in DOMAIN ratio |-> RDiv(RSub(ratio[i], median_ratio), median_ratio)]
        arg == RhsArg(assessed, sale_price)
        rhs == [i \in DOMAIN ratio |-> Log2(arg[i])]
    IN  OLS(lhs, rhs)

\* prb returns a dict: the slope and its confidence interval (the interval's
\* bounds are not computed here).
prb(assessed, sale_price) ==
    LET chk == check_inputs(<<np_array(AsList(assessed)), np_array(AsList(sale_price))>>)
    IN  IF chk.kind # "ok" THEN Raised(chk)
        ELSE [type |-> "dict", keys |-> {"prb", "95% ci"},
              val |-> prb_value(assessed, sale_price)]

CallCod ==
    /\ pc = "idle"
    /\ \E ratio \in IntVectors :
        /\ pc' = "done" /\ fn' = "cod"
        /\ inp' = [ratio |-> ratio]
        /\ loc' = <<>>
        /\ ret' = cod(ratio)

CallPrd ==
    /\ pc = "idle"
    /\ \E assessed \in IntVectors, sale_price \in IntVectors :
        /\ pc' = "done" /\ fn' = "prd"
        /\ inp' = [assessed |-> assessed, sale_price |-> sale_price]
        /\ loc' = <<>>
        /\ ret' = prd(assessed, sale_price)

CallPrb ==
    /\ pc = "idle"
    /\ \E assessed \in IntVectors, sale_price \in IntVectors :
        /\ IF prd(assessed, sale_price).type = "raise" THEN TRUE
           ELSE ExactLog(assessed, sale_price)
        /\ pc' = "done" /\ fn' = "prb"
        /\ inp' = [assessed |-> assessed, sale_price |-> sale_price]
        /\ loc' = <<>>
        /\ ret' = prb(assessed, sale_price)

\* list(zip(sale_price, assessed))
Zip(sale_price, assessed) ==
    [i \in DOMAIN sale_price |-> <<sale_price[i], assessed[i]>>]

\* One step of a stable sort on component key of the pairs: x goes behind
\* every element whose key is not greater than its own.
RECURSIVE Insert(_, _, _)
Insert(sorted, x, key) ==
    IF sorted = <<>> THEN <<x>>
    ELSE IF x[key] < sorted[1][key] THEN <<x>> \o sorted
    ELSE <<sorted[1]>> \o Insert(Tail(sorted), x, key)

RECURSIVE SortFrom(_, _, _)
SortFrom(sorted, rest, key) ==
    IF rest = <<>> THEN sorted
    ELSE SortFrom(Insert(sorted, rest[1], key), Tail(rest), key)

\* A plausible slip: the pairs are sorted on the assessed value, x[1].
sort_by_assessed(dataset) == SortFrom(<<>>, dataset, 2)

\* dataset.sort(key=lambda x: x[0]): Python's sort is stable.
sort_by_sale_price(dataset) == SortFrom(<<>>, dataset, 1)

\* sum(a * (i + 1) for i, a in enumerate(v))
RankWeightedSum(v) == ISum([i \in DOMAIN v |-> v[i] * i])

\* (2 * G / sum(v) - (n + 1)) / n
Gini(v) ==
    LET n == Len(v)
        G == RSub(RDiv(RInt(2 * RankWeightedSum(v)), RInt(ISum(v))), RInt(n + 1))
    IN  RDiv(G, RInt(n))

\* A plausible slip: the sale-price ranks start at 0.
GINI_sale_zero_based(sale_price) ==
    LET n == Len(sale_price)
        G_sale == ISum([i \in DOMAIN sale_price |-> sale_price[i] * (i - 1)])
    IN  RDiv(RSub(RDiv(RInt(2 * G_sale), RInt(ISum(sale_price))), RInt(n + 1)),
             RInt(n))

GINI_assessed(assessed_price) == Gini(assessed_price)

GINI_sale(sale_price) == Gini(sale_price)

\* Division of two numpy floats: a zero divisor gives nan or inf with a
\* warning, not an exception.
FloatDiv(p, q) ==
    IF q[1] # 0 THEN [k |-> "num", q |-> RDiv(p, q)]
    ELSE IF p[1] = 0 THEN [k |-> "nan", q |-> RInt(0)]
    ELSE [k |-> "inf", q |-> RInt(IF p[1] < 0 THEN 0 - 1 ELSE 1)]

\* The local variables of ki_mki after the sort.
ki_mki_locals(assessed, sale_price) ==
    LET dataset == sort_by_sale_price(Zip(sale_price, assessed))
        assessed_price == [i \in DOMAIN dataset |-> dataset[i][2]]
        sorted_sale == [i \in DOMAIN dataset |-> dataset[i][1]]
    IN  [dataset |-> dataset,
         assessed_price |-> assessed_price,
         sale_price |-> sorted_sale,
         G_assessed |-> RankWeightedSum(assessed_price),
         G_sale |-> RankWeightedSum(sorted_sale),
         GINI_assessed |-> GINI_assessed(assessed_price),
         GINI_sale |-> GINI_sale(sorted_sale)]

\* ki_mki returns a dict with the one key "MKI" or "KI".
ki_mki(assessed, sale_price, mki) ==
    LET chk == check_inputs(<<np_array(AsList(assessed)), np_array(AsList(sale_price))>>)
        l == ki_mki_locals(assessed, sale_price)
    IN  IF chk.kind # "ok" THEN Raised(chk)
        ELSE IF mki
        THEN [type |-> "dict", keys |-> {"MKI"},
              val |-> FloatDiv(l.GINI_assessed, l.GINI_sale)]
        ELSE [type |-> "dict", keys |-> {"KI"},
              val |-> [k |-> "num", q |-> RSub(l.GINI_assessed, l.GINI_sale)]]

CallKiMki ==
    /\ pc = "idle"
    /\ \E assessed \in IntVectors, sale_price \in IntVectors, mki \in BOOLEAN :
        /\ pc' = "done" /\ fn' = "ki_mki"
        /\ inp' = [assessed |-> assessed, sale_price |-> sale_price, mki |-> mki]
        /\ loc' = IF ki_mki(assessed, sale_price, mki).type = "raise" THEN <<>>
                  ELSE ki_mki_locals(assessed, sale_price)
        /\ ret' = ki_mki(assessed, sale_price, mki)

NextMetrics == CallCod \/ CallPrd \/ CallPrb \/ CallKiMki

SpecMetrics == Init /\ [][NextMetrics]_vars

\* C6: prd is invariant under common scaling: prd(c * assessed,
\* c * sale_price) = prd(assessed, sale_price) for every valid input and
\* every positive constant c.
C6_PrdScaleInvariant ==
    (fn = "prd" /\ ret.type = "float") =>
        \A c \in 1..MaxScale :
            prd(Scale(c, inp.assessed), Scale(c, inp.sale_price)) = ret

C6_Witness ==
    /\ fn = "prd" /\ ret.type = "float"
    /\ inp.assessed = <<1, 3>> /\ inp.sale_price = <<2, 1>>
    /\ ret.val # RInt(1)

\* C7: prb is invariant under common scaling: the no-intercept slope
\* computed from (c * assessed, c * sale_price) equals the one computed from
\* (assessed, sale_price), for every valid input and positive constant c.
C7_PrbScaleInvariant ==
    (fn = "prb" /\ ret.type = "dict") =>
        \A c \in {1, 2} :
            prb(Scale(c, inp.assessed), Scale(c, inp.sale_price)).val = ret.val

\* C4: for every valid input each metric (cod, prd, prb, and ki_mki in
\* either mode) returns a single float, not a container or structured value.
C4_ReturnsPlainFloat ==
    (fn \in {"cod", "prd", "prb", "ki_mki"} /\ ret.type # "raise") =>
        ret.type = "float"

Constant(v) == \A i, j \in DOMAIN v : v[i] = v[j]

StableRank(sale_price, k) ==
    1 + Cardinality({j \in DOMAIN sale_price :
                        \/ sale_price[j] < sale_price[k]
                        \/ (sale_price[j] = sale_price[k] /\ j < k)})

\* C10: in ki_mki both Gini coefficients use the sale-price ordering: the
\* sorted sale prices are non-decreasing, every input pair (sale_price,
\* assessed) sits, intact, at its stable rank (so the pairs are those of the
\* input and ties keep their input order), and the rank weighting an
\* assessed value is the position of its paired sale price.
C10_SameSalePriceOrdering ==
    (fn = "ki_mki" /\ ret.type # "raise") =>
        LET s == inp.sale_price
            a == inp.assessed
        IN  /\ Len(loc.dataset) = Len(s)
            /\ \A i, j \in DOMAIN loc.sale_price :
                    i < j => loc.sale_price[i] <= loc.sale_price[j]
            /\ \A k \in DOMAIN s :
                    /\ loc.dataset[StableRank(s, k)] = <<s[k], a[k]>>
                    /\ loc.assessed_price[StableRank(s, k)] = a[k]
                    /\ loc.sale_price[StableRank(s, k)] = s[k]
            /\ loc.G_assessed = ISum([k \in DOMAIN s |-> StableRank(s, k) * a[k]])
            /\ loc.G_sale = ISum([k \in DOMAIN s |-> StableRank(s, k) * s[k]])

\* A tie in sale price, and an assessed order that differs from the
\* sale-price order.
C10_Witness ==
    /\ fn = "ki_mki" /\ ret.type = "dict"
    /\ inp.sale_price = <<2, 1, 2>> /\ inp.assessed = <<1, 3, 2>>
    /\ loc.dataset = <<<<1, 3>>, <<2, 1>>, <<2, 2>>>>
    /\ loc.G_assessed = 3 * 1 + 1 * 2 + 2 * 3

\* -------------------------------------------------------- sales_chasing.py

\* detect_chasing is called with vectors of 1..MaxChaseLen values in
\* 1..MaxChaseVal; the synthetic sample's share inside the band is one of
\* DrawGrid + 1 evenly spaced counts.
MaxChaseLen == 3
MaxChaseVal == 2
DrawGrid == 2

\* np.random.normal(..., 10000); the advisory threshold N < 30.
IdealSize == 10000
SmallSample == 30

ChaseVectors == SeqsUpTo(1..MaxChaseVal, 1, MaxChaseLen)

\* gap and the bounds are in thousandths: 30 is 0.03, <<980, 1020>> is
\* (0.98, 1.02).
Gaps == {0, 30, 500, 1000}
Bands == {<<980, 1020>>, <<1020, 980>>, <<1000, 1000>>}
Methods == {"cdf", "dist", "both", "other"}

Milli(x) == Rat(x, 1000)

\* not (0 < gap < 1)
GapInvalid(gap) == ~(0 < gap /\ gap < 1000)

\* A plausible slip: equal bounds are let through.
BoundsInvalidStrict(bounds) == bounds[1] > bounds[2]

\* bounds[0] >= bounds[1]
BoundsInvalid(bounds) == bounds[1] >= bounds[2]

RECURSIVE RInsert(_, _)
RInsert(sorted, x) ==
    IF sorted = <<>> THEN <<x>>
    ELSE IF RLess(x, sorted[1]) THEN <<x>> \o sorted
    ELSE <<sorted[1]>> \o RInsert(Tail(sorted), x)

RECURSIVE RSortFrom(_, _)
RSortFrom(sorted, rest) ==
    IF rest = <<>> THEN sorted ELSE RSortFrom(RInsert(sorted, rest[1]), Tail(rest))

\* ratio.sort_values()
sort_values(ratio) == RSortFrom(<<>>, ratio)

\* ECDF(sorted_ratio)(sorted_ratio), as counts: n * cdf[i] is the number of
\* ratios not greater than sorted_ratio[i].
ECDFCounts(sorted_ratio) ==
    [i \in DOMAIN sorted_ratio |->
        Cardinality({j \in DOMAIN sorted_ratio : RLeq(sorted_ratio[j], sorted_ratio[i])})]

\* The check of the validated ratios: cdf.diff().dropna() has one entry for
\* every position but the first; idxmax is the first position of the maximum.
cdf_flag(ratio, bounds, gap) ==
    LET n == Len(ratio)
        sorted_ratio == sort_values(ratio)
        cdf == ECDFCounts(sorted_ratio)
        diffs == [i \in 2..n |-> cdf[i] - cdf[i - 1]]
        max == CHOOSE d \in {diffs[i] : i \in 2..n} : \A i \in 2..n : diffs[i] <= d
        idxmax == CHOOSE i \in 2..n :
                    diffs[i] = max /\ \A j \in 2..n : diffs[j] = max => i <= j
        diff_loc == sorted_ratio[idxmax]
    IN  /\ RLess(Milli(gap), Rat(max, n))
        /\ RLess(Milli(bounds[1]), diff_loc)
        /\ RLess(diff_loc, Milli(bounds[2]))

\* pct_in_range(x, min, max) of the ratios, as a count.
InRangeCount(ratio, bounds) ==
    Cardinality({i \in DOMAIN ratio :
        RLeq(Milli(bounds[1]), ratio[i]) /\ RLeq(ratio[i], Milli(bounds[2]))})

\* The counts of synthetic values inside the band that a draw can give: with
\* a zero standard deviation every value is the mean; otherwise any count.
IdealCounts(ratio, bounds) ==
    IF \A i, j \in DOMAIN ratio : ratio[i] = ratio[j]
    THEN {IF RLeq(Milli(bounds[1]), ratio[1]) /\ RLeq(ratio[1], Milli(bounds[2]))
          THEN IdealSize ELSE 0}
    ELSE {k * (IdealSize \div DrawGrid) : k \in 0..DrawGrid}

\* abs(pct_actual - pct_ideal) > gap
dist_flag(ratio, bounds, gap, ideal_count) ==
    LET pct_actual == Rat(InRangeCount(ratio, bounds), Len(ratio))
        pct_ideal == Rat(ideal_count, IdealSize)
    IN  RLess(Milli(gap), RAbs(RSub(pct_actual, pct_ideal)))

ValueError(msg) == [type |-> "raise", kind |-> "ValueError", msgs |-> {msg}]

ChaseLocals ==
    [warned |-> FALSE, validated |-> 0, ratios |-> 0, draws |-> 0,
     out_cdf |-> "unset", out_dist |-> "unset"]

\* The call: nothing has run yet.
CallDetectChasing ==
    /\ pc = "idle"
    /\ \E estimate \in ChaseVectors, sale_price \in ChaseVectors,
          bounds \in Bands, gap \in Gaps, method \in Methods :
        /\ pc' = "check_gap" /\ fn' = "detect_chasing"
        /\ inp' = [estimate |-> estimate, sale_price |-> sale_price,
                   bounds |-> bounds, gap |-> gap, method |-> method]
        /\ loc' = ChaseLocals
        /\ ret' = <<>>

CheckGap ==
    /\ pc = "check_gap"
    /\ IF GapInvalid(inp.gap)
       THEN /\ ret' = ValueError("Gap must be a positive value less than 1.")
            /\ pc' = "done"
       ELSE /\ ret' = ret
            /\ pc' = "check_bounds"
    /\ UNCHANGED <<fn, inp, loc>>

CheckBounds ==
    /\ pc = "check_bounds"
    /\ IF BoundsInvalid(inp.bounds)
       THEN /\ ret' = ValueError("Bounds must have the left value lower than the right value.")
            /\ pc' = "done"
       ELSE /\ ret' = ret
            /\ pc' = "check_len"
    /\ UNCHANGED <<fn, inp, loc>>

\* The small-sample advisory: a warning, and the call goes on.
CheckLen ==
    /\ pc = "check_len"
    /\ loc' = [loc EXCEPT !.warned = Len(inp.estimate) < SmallSample]
    /\ pc' = "dispatch"
    /\ UNCHANGED <<fn, inp, ret>>

Dispatch ==
    /\ pc = "dispatch"
    /\ IF inp.method \in {"cdf", "both"}
       THEN pc' = "cdf" /\ ret' = ret
       ELSE IF inp.method = "dist"
       THEN pc' = "dist" /\ ret' = ret
       ELSE /\ ret' = ValueError("Method must be either 'cdf' or 'dist'")
            /\ pc' = "done"
    /\ UNCHANGED <<fn, inp, loc>>

\* _detect_chasing_cdf, then the return (method cdf) or the second method.
DetectChasingCdf ==
    /\ pc = "cdf"
    /\ LET chk == check_inputs(<<AsList(inp.estimate), AsList(inp.sale_price)>>)
           out == cdf_flag(Ratio(inp.estimate, inp.sale_price), inp.bounds, inp.gap)
       IN  IF chk.kind # "ok"
           THEN /\ loc' = [loc EXCEPT !.validated = @ + 1]
                /\ ret' = Raised(chk)
                /\ pc' = "done"
           ELSE /\ loc' = [loc EXCEPT !.validated = @ + 1, !.ratios = @ + 1,
                                      !.out_cdf = out]
                /\ IF inp.method = "cdf"
                   THEN ret' = [type |-> "bool", val |-> out] /\ pc' = "done"
                   ELSE ret' = ret /\ pc' = "dist"
    /\ UNCHANGED <<fn, inp>>

\* _detect_chasing_dist, then the return: out_dist, or out_cdf & out_dist.
DetectChasingDist ==
    /\ pc = "dist"
    /\ LET chk == check_inputs(<<AsList(inp.estimate), AsList(inp.sale_price)>>)
           ratio == Ratio(inp.estimate, inp.sale_price)
       IN  IF chk.kind # "ok"
           THEN /\ loc' = [loc EXCEPT !.validated = @ + 1]
                /\ ret' = Raised(chk)
                /\ pc' = "done"
           ELSE \E ideal_count \in IdealCounts(ratio, inp.bounds) :
                LET out == dist_flag(ratio, inp.bounds, inp.gap, ideal_count)
                IN  /\ loc' = [loc EXCEPT !.validated = @ + 1, !.ratios = @ + 1,
                                          !.draws = @ + 1, !.out_dist = out]
                    /\ ret' = [type |-> "bool",
                               val |-> IF inp.method = "both"
                                       THEN loc.out_cdf /\ out ELSE out]
                    /\ pc' = "done"
    /\ UNCHANGED <<fn, inp>>

NextChasing ==
    \/ CallDetectChasing
    \/ CheckGap
    \/ CheckBounds
    \/ CheckLen
    \/ Dispatch
    \/ DetectChasingCdf
    \/ DetectChasingDist

SpecChasing == Init /\ [][NextChasing]_vars

\* The multiplicity of ratio value v among the ratios.
Occurrences(ratio, v) == Cardinality({i \in DOMAIN ratio : ratio[i] = v})

\* An exact duplicate cluster inside the band at sufficient scale: a value v
\* with low < v < high that occurs m times with m / n > gap, no other value
\* occurring as many times.
ClusterInBand(ratio, bounds, gap) ==
    \E i \in DOMAIN ratio :
        LET v == ratio[i]
            m == Occurrences(ratio, v)
        IN  /\ RLess(Milli(bounds[1]), v) /\ RLess(v, Milli(bounds[2]))
            /\ RLess(Milli(gap), Rat(m, Len(ratio)))
            /\ \A j \in DOMAIN ratio :
                    ratio[j] # v => Occurrences(ratio, ratio[j]) < m

\* C8: detect_chasing with method 'cdf' returns true for every valid input
\* whose ratios hold an exact duplicate cluster inside the band at
\* sufficient scale.
C8_CdfFlagsCluster ==
    (/\ fn = "detect_chasing" /\ pc = "done" /\ inp.method = "cdf"
     /\ ret.type = "bool"
     /\ ClusterInBand(Ratio(inp.estimate, inp.sale_price), inp.bounds, inp.gap))
        => ret.val = TRUE

\* The configuration errors, read on the arguments.
BadConfig(args) ==
    \/ ~(0 < args.gap /\ args.gap < 1000)
    \/ args.bounds[1] >= args.bounds[2]
    \/ args.method \notin {"cdf", "dist", "both"}

\* C9: whenever gap is not strictly between 0 and 1, or bounds[0] >=
\* bounds[1], or method is none of 'cdf', 'dist', 'both', detect_chasing
\* raises a configuration error, before any input validation, ratio
\* computation or random draw, and returns no boolean.
C9_ConfigErrorFirst ==
    (fn = "detect_chasing" /\ BadConfig(inp)) =>
        /\ loc.validated = 0 /\ loc.ratios = 0 /\ loc.draws = 0
        /\ loc.out_cdf = "unset" /\ loc.out_dist = "unset"
        /\ pc = "done" => (ret.type = "raise" /\ ret.kind = "ValueError")
        /\ pc # "done" => ret = <<>>
        /\ pc \in {"check_gap", "check_bounds", "check_len", "dispatch", "done"}

\* An unknown method with a valid gap and valid bounds: the call went
\* through the advisory and raised at the dispatch.
C9_Witness ==
    /\ fn = "detect_chasing" /\ pc = "done"
    /\ inp.method = "other" /\ inp.gap = 30 /\ inp.bounds = <<980, 1020>>
    /\ loc.warned /\ loc.validated = 0
    /\ ret = ValueError("Method must be either 'cdf' or 'dist'")

====
